---------------------------- MODULE Spec2Model ----------------------------
(***************************************************************************)
(* GovSpeak HCP Federal Analytics Dashboard (src/app.py).                  *)
(*                                                                         *)
(* The script is a Streamlit page: every interaction reruns it from the    *)
(* top.  The model has the password gate, the header resolver              *)
(* (standardize_columns), the table unifier (load_and_normalize), the      *)
(* sidebar filter chain (multiselect_filter), the KPI cards and the        *)
(* ICD-10 grouping.                                                        *)
(*                                                                         *)
(* A DataFrame is a record [cols, rows]: cols is the sequence of column    *)
(* labels (pandas allows a label to occur twice), rows is a sequence of    *)
(* rows, each a sequence of cells aligned with cols.  Cells are strings;   *)
(* a numeric cell is written as its decimal text and a missing cell (NaN)  *)
(* is the token NA.  After cleaning, the Encounters cells are integers.    *)
(***************************************************************************)
EXTENDS Integers, Sequences, FiniteSets, TLC

VARIABLES
    pc,              \* position in the script run, or in the function applied
    session_state,   \* st.session_state: a function, empty until the first run
    submitted_ok,    \* history: a correct password was submitted with 'Sign in'
    raw_dfs,         \* the sheets read from the uploads
    manual_mapping,  \* canonical key -> "AUTO" | None | a raw column label
    df,              \* input of standardize_columns
    resolved,        \* standardize_columns(df, manual_mapping)
    resolved2,       \* standardize_columns(resolved, manual_mapping)
    data,            \* load_and_normalize's result
    stage,           \* index of the current sidebar filter stage
    stage_in,        \* the table the last filter stage was given
    selected,        \* the last stage's multiselect value
    touched,         \* the user changed that multiselect (it is not in its default state)
    filtered,        \* the table after the filter stages run so far
    kpi,             \* the KPI cards
    icd_group        \* the ICD-10 chart's table

vars == <<pc, session_state, submitted_ok, raw_dfs, manual_mapping, df, resolved,
          resolved2, data, stage, stage_in, selected, touched, filtered, kpi, icd_group>>

---------------------------------------------------------------------------
(* Bounds of the model.                                                    *)

\* Longest header (number of columns) of a table given to standardize_columns.
MaxCols == 3

\* Most sheets in one upload.
MaxSheets == 2

\* Most files in one upload of a dashboard session.
MaxFiles == 2

---------------------------------------------------------------------------
(* Static configuration.                                                   *)

DASHBOARD_PASSWORD == "test123"

\* Python's None (the 'None' choice of a mapping selector after normalization).
None == "<None>"

\* A missing cell (NaN).
NA == "<NaN>"

\* The keys of CANONICAL_COLS / COLUMN_SYNONYMS in declaration (iteration) order.
KEYS ==
    << "visn", "facility_name", "state", "city", "icd10", "cpt", "encounters",
       "provider_name", "provider_specialty" >>

KeySet == {KEYS[i] : i \in DOMAIN KEYS}

CANONICAL_COLS ==
    [ visn               |-> "VISN",
      facility_name      |-> "FacilityName",
      state              |-> "State",
      city               |-> "City",
      icd10              |-> "ICD10_Code",
      cpt                |-> "CPT_Code",
      encounters         |-> "Encounters",
      provider_name      |-> "ProviderName",
      provider_specialty |-> "ProviderSpecialty" ]

CanonicalNames == {CANONICAL_COLS[k] : k \in KeySet}

COLUMN_SYNONYMS ==
    [ visn               |-> << "visn", "visn_id", "visn number", "visn_num" >>,
      facility_name      |-> << "facility", "facility_name", "facility name",
                                "station_name", "site_name", "hospitalname",
                                "organizationname", "va facility" >>,
      state              |-> << "state", "st" >>,
      city               |-> << "city", "town", "city_name" >>,
      icd10              |-> << "icd10", "icd_10", "icd-10", "dx_code",
                                "diagnosis_code", "icddisplay" >>,
      cpt                |-> << "cpt", "cpt_code", "cpt code", "procedure_code",
                                "proc_code" >>,
      encounters         |-> << "encounters", "encounter_count", "visit_count",
                                "visits", "total_encounters", "encountersredacted",
                                "cptcountsredacted" >>,
      provider_name      |-> << "provider", "provider_name", "provider name",
                                "providername", "physician", "physician_name",
                                "name", "hcp_name", "last name", "lastname" >>,
      provider_specialty |-> << "specialty", "provider_specialty",
                                "provider specialty", "provclassandspecialization",
                                "occ4", "occeng", "occupation" >> ]

---------------------------------------------------------------------------
(* Column labels and str.lower().strip().                                  *)

\* The labels of the model that are not already lower-case and trimmed, with
\* their lower-cased, trimmed form.
LowerStripMap ==
    [ c \in { "ICDDisplay", "ICD10", " icd10 ", "EncountersRedacted", "Notes",
              "Comment", "Memo", "VISN", "FacilityName", "State", "City", "ICD10_Code",
              "CPT_Code", "Encounters", "ProviderName", "ProviderSpecialty" } |->
        CASE c = "ICDDisplay"         -> "icddisplay"
          [] c = "ICD10"              -> "icd10"
          [] c = " icd10 "            -> "icd10"
          [] c = "EncountersRedacted" -> "encountersredacted"
          [] c = "Notes"              -> "notes"
          [] c = "Comment"            -> "comment"
          [] c = "Memo"               -> "memo"
          [] c = "VISN"               -> "visn"
          [] c = "FacilityName"       -> "facilityname"
          [] c = "State"              -> "state"
          [] c = "City"               -> "city"
          [] c = "ICD10_Code"         -> "icd10_code"
          [] c = "CPT_Code"           -> "cpt_code"
          [] c = "Encounters"         -> "encounters"
          [] c = "ProviderName"       -> "providername"
          [] c = "ProviderSpecialty"  -> "providerspecialty" ]

\* LowerStrip with a fault: the label is compared as written.
LowerStripAsWritten(col) == col

\* col.lower().strip()
LowerStrip(col) == IF col \in DOMAIN LowerStripMap THEN LowerStripMap[col] ELSE col

---------------------------------------------------------------------------
(* DataFrames.                                                             *)

EmptyFrame == [cols |-> << >>, rows |-> << >>]

\* set(df.columns)
Columns(d) == {d.cols[i] : i \in DOMAIN d.cols}

\* df.rename(columns={old: new}): every column labelled old is relabelled;
\* a label that is absent is ignored.
Rename(d, old, new) ==
    [d EXCEPT !.cols = [i \in DOMAIN d.cols |->
                           IF d.cols[i] = old THEN new ELSE d.cols[i]]]

\* The positions of the columns of d labelled name.
Positions(d, name) == {i \in DOMAIN d.cols : d.cols[i] = name}

HasDuplicateColumns(d) ==
    \E i, j \in DOMAIN d.cols : i # j /\ d.cols[i] = d.cols[j]

---------------------------------------------------------------------------
(* standardize_columns.                                                    *)

\* Chosen with a fault: the manual mapping is never consulted.
ChosenAlwaysAuto(mm, key) == "AUTO"

\* manual_mapping.get(canonical_key, "AUTO")
Chosen(mm, key) == IF key \in DOMAIN mm THEN mm[key] ELSE "AUTO"

\* 1) Manual mapping: the loop over CANONICAL_COLS.items(), from key i on.
RECURSIVE ManualMappingLoop(_, _, _)
ManualMappingLoop(d, mm, i) ==
    IF i > Len(KEYS) THEN d
    ELSE LET canonical_key  == KEYS[i]
             canonical_name == CANONICAL_COLS[canonical_key]
             chosen         == Chosen(mm, canonical_key)
             renamed ==
                 IF /\ chosen \notin {None, "AUTO"}
                    /\ chosen \in Columns(d)
                    /\ chosen # canonical_name
                 THEN Rename(d, chosen, canonical_name)
                 ELSE d
         IN  ManualMappingLoop(renamed, mm, i + 1)

\* {col.lower().strip(): col for col in df.columns}: a later column replaces an
\* earlier one with the same lower-cased, trimmed label.
LowerToOriginal(d) ==
    [ s \in {LowerStrip(d.cols[i]) : i \in DOMAIN d.cols} |->
        LET last == CHOOSE i \in DOMAIN d.cols :
                        /\ LowerStrip(d.cols[i]) = s
                        /\ \A j \in DOMAIN d.cols :
                               LowerStrip(d.cols[j]) = s => j <= i
        IN  d.cols[last] ]

\* AlreadyPresent with a fault: the test is missing.
AlreadyPresentUnchecked(d, canonical_name) == FALSE

\* Already present?  canonical_name in df.columns
AlreadyPresent(d, canonical_name) == canonical_name \in Columns(d)

\* The first synonym, in list order, that is a key of lower_to_original; 0 if none.
FirstSynonym(synonyms, lower_to_original) ==
    LET hits == {j \in DOMAIN synonyms : synonyms[j] \in DOMAIN lower_to_original}
    IN  IF hits = {} THEN 0
        ELSE CHOOSE j \in hits : \A h \in hits : j <= h

\* 2) Synonym-based auto mapping: the loop over COLUMN_SYNONYMS.items(), from
\* key i on.  lower_to_original was built once, before the loop.
RECURSIVE SynonymLoop(_, _, _, _)
SynonymLoop(d, lower_to_original, mm, i) ==
    IF i > Len(KEYS) THEN d
    ELSE LET canonical_key  == KEYS[i]
             synonyms       == COLUMN_SYNONYMS[canonical_key]
             canonical_name == CANONICAL_COLS[canonical_key]
             chosen         == Chosen(mm, canonical_key)
             j              == FirstSynonym(synonyms, lower_to_original)
             renamed ==
                 IF AlreadyPresent(d, canonical_name) THEN d
                 ELSE IF chosen \notin {None, "AUTO"} THEN d      \* handled above
                 ELSE IF j = 0 THEN d
                 ELSE Rename(d, lower_to_original[synonyms[j]], canonical_name)
         IN  SynonymLoop(renamed, lower_to_original, mm, i + 1)

\* The table after the manual-mapping step alone.
AfterManualMapping(d, mm) == ManualMappingLoop(d, mm, 1)

StandardizeColumns(d, mm) ==
    LET manual == AfterManualMapping(d, mm)
    IN  SynonymLoop(manual, LowerToOriginal(manual), mm, 1)

---------------------------------------------------------------------------
(* load_and_normalize.                                                     *)

\* CANONICAL_COLS.values(), in declaration order.
CanonicalSeq == [i \in DOMAIN KEYS |-> CANONICAL_COLS[KEYS[i]]]

\* The columns cleaned as strings (all canonical columns but Encounters).
StringCols ==
    { "VISN", "FacilityName", "State", "City", "ICD10_Code", "CPT_Code",
      "ProviderName", "ProviderSpecialty" }

\* The cells of the model that carry surrounding white space, trimmed.
StripMap ==
    [ v \in { " C50.911", "Dr. A " } |->
        CASE v = " C50.911" -> "C50.911"
          [] v = "Dr. A "   -> "Dr. A" ]

\* .astype(str).str.strip(): a missing cell becomes the text "nan".
StrStrip(v) ==
    IF v = NA THEN "nan"
    ELSE IF v \in DOMAIN StripMap THEN StripMap[v]
    ELSE v

\* The cells of the model that parse as numbers.
NumericMap ==
    [ v \in { "0", "2", "3", "5" } |->
        CASE v = "0" -> 0
          [] v = "2" -> 2
          [] v = "3" -> 3
          [] v = "5" -> 5 ]

\* pd.to_numeric(..., errors="coerce").fillna(0): what does not parse, or is
\* missing, is 0.
ToNumeric(v) == IF v \in DOMAIN NumericMap THEN NumericMap[v] ELSE 0

\* The first position of the column labelled name (the label is unique there).
ColIndex(d, name) == CHOOSE i \in DOMAIN d.cols : d.cols[i] = name

\* keep_cols: the canonical columns that exist in some standardized sheet.
KeepCols(dfs) ==
    SelectSeq(CanonicalSeq, LAMBDA c : \E i \in DOMAIN dfs : c \in Columns(dfs[i]))

\* One sheet's rows in pd.concat(...)[keep_cols]: a column the sheet lacks is
\* missing in its rows.
Reindexed(d, keep_cols) ==
    [ r \in DOMAIN d.rows |->
        [ j \in DOMAIN keep_cols |->
            IF keep_cols[j] \in Columns(d)
            THEN d.rows[r][ColIndex(d, keep_cols[j])]
            ELSE NA ] ]

\* pd.concat(dfs, ignore_index=True)[keep_cols]: the sheets' rows, in order.
RECURSIVE ConcatRows(_, _, _)
ConcatRows(dfs, keep_cols, i) ==
    IF i > Len(dfs) THEN << >>
    ELSE Reindexed(dfs[i], keep_cols) \o ConcatRows(dfs, keep_cols, i + 1)

\* Cleanup strings / Numeric encounters, on one row.
CleanRow(row, keep_cols) ==
    [ j \in DOMAIN keep_cols |->
        IF keep_cols[j] \in StringCols THEN StrStrip(row[j])
        ELSE IF keep_cols[j] = "Encounters" THEN ToNumeric(row[j])
        ELSE row[j] ]

\* DropDuplicates with a fault: rows are compared on their first column only.
DropDuplicatesOnFirstColumn(rows) ==
    LET first == {i \in DOMAIN rows : \A j \in 1..(i - 1) : rows[j][1] # rows[i][1]}
        F[i \in 0..Len(rows)] ==
            IF i = 0 THEN << >>
            ELSE IF i \in first THEN Append(F[i - 1], rows[i]) ELSE F[i - 1]
    IN  F[Len(rows)]

\* drop_duplicates(): the first of each group of identical rows is kept.
DropDuplicates(rows) ==
    LET first == {i \in DOMAIN rows : \A j \in 1..(i - 1) : rows[j] # rows[i]}
        F[i \in 0..Len(rows)] ==
            IF i = 0 THEN << >>
            ELSE IF i \in first THEN Append(F[i - 1], rows[i]) ELSE F[i - 1]
    IN  F[Len(rows)]

\* [standardize_columns(df.copy(), manual_mapping) for df in raw_dfs]
StandardizedSheets(sheets, mm) ==
    [i \in DOMAIN sheets |-> StandardizeColumns(sheets[i], mm)]

\* load_and_normalize raises instead of returning: a standardized sheet has a
\* repeated (canonical) label, so pd.concat cannot align the sheets or
\* combined[col] is a DataFrame, which has no .str and is refused by to_numeric.
LoadRaises(sheets, mm) ==
    \E i \in DOMAIN sheets : HasDuplicateColumns(StandardizeColumns(sheets[i], mm))

\* load_and_normalize, when it returns.
LoadAndNormalize(sheets, mm) ==
    LET dfs       == StandardizedSheets(sheets, mm)
        keep_cols == KeepCols(dfs)
        combined  == ConcatRows(dfs, keep_cols, 1)
        cleaned   == [r \in DOMAIN combined |-> CleanRow(combined[r], keep_cols)]
    IN  IF Len(dfs) = 0 THEN EmptyFrame
        ELSE IF Len(keep_cols) = 0 THEN EmptyFrame
        ELSE [cols |-> keep_cols, rows |-> DropDuplicates(cleaned)]

---------------------------------------------------------------------------
(* Aggregation: groupby(col)[metric].sum().sort_values(descending).head(25) *)

TopN == 25

\* The cells of column name of table d, as a set.
ColumnValues(d, name) == {d.rows[r][ColIndex(d, name)] : r \in DOMAIN d.rows}

\* The sum of column metric over the rows of d whose column by is key.
GroupTotal(d, by, metric, key) ==
    LET F[i \in 0..Len(d.rows)] ==
            IF i = 0 THEN 0
            ELSE IF d.rows[i][ColIndex(d, by)] = key
                 THEN F[i - 1] + d.rows[i][ColIndex(d, metric)]
                 ELSE F[i - 1]
    IN  F[Len(d.rows)]

\* The orders sort_values(metric, ascending=False) may return: one entry per
\* group, the sums descending; the order of equal sums is not fixed by the
\* (unstable) default sort.
SortedGroups(d, by, metric) ==
    LET keys == ColumnValues(d, by)
        n    == Cardinality(keys)
    IN  { [i \in 1..n |-> [key |-> o[i], total |-> GroupTotal(d, by, metric, o[i])]] :
            o \in { p \in [1..n -> keys] :
                      /\ \A i, j \in 1..n : i # j => p[i] # p[j]
                      /\ \A i \in 1..(n - 1) :
                             GroupTotal(d, by, metric, p[i]) >=
                                 GroupTotal(d, by, metric, p[i + 1]) } }

FirstRows(s, n) == SubSeq(s, 1, IF Len(s) < n THEN Len(s) ELSE n)

\* filtered.groupby(by, as_index=False)[metric].sum()
\*         .sort_values(metric, ascending=False).head(25)
GroupSum(d, by, metric) == {FirstRows(g, TopN) : g \in SortedGroups(d, by, metric)}

---------------------------------------------------------------------------
(* Inputs of the header-resolver runs.                                     *)

\* Column labels: a synonym of icd10 ("icddisplay", last of its list), two
\* spellings of the synonym "icd10", two canonical display names and a label no
\* key recognises.
ResolveNames == { "ICDDisplay", "ICD10", " icd10 ", "ICD10_Code", "VISN", "Notes" }

\* Headers: up to MaxCols distinct labels, in any order, no rows.
RECURSIVE HeadersOfLen(_)
HeadersOfLen(n) ==
    IF n = 0 THEN { << >> }
    ELSE { Append(h, c) : h \in HeadersOfLen(n - 1), c \in ResolveNames }

IsInjective(s) == \A i, j \in DOMAIN s : i # j => s[i] # s[j]

ResolveTables ==
    { [cols |-> h, rows |-> << >>] :
        h \in { g \in UNION { HeadersOfLen(n) : n \in 0..MaxCols } : IsInjective(g) } }

AllAuto == [k \in KeySet |-> "AUTO"]

\* The keys whose selector is moved off 'Auto-detect' in the resolver runs.
MappedKeys == { "visn", "icd10" }

ResolveMappings ==
    { [k \in KeySet |-> IF k \in MappedKeys THEN m[k] ELSE "AUTO"] :
        m \in [MappedKeys -> {"AUTO", None} \cup ResolveNames] }

---------------------------------------------------------------------------
(* The header-resolver specification: standardize_columns applied to a     *)
(* table, then to its own output.                                          *)

NoSession == [k \in {} |-> FALSE]

NoKpi == [total_encounters |-> 0, distinct_providers |-> 0,
          distinct_facilities |-> 0, distinct_icd |-> 0]

InitResolve ==
    /\ pc = "resolve"
    /\ df \in ResolveTables
    /\ manual_mapping \in ResolveMappings
    /\ resolved = EmptyFrame
    /\ resolved2 = EmptyFrame
    /\ session_state = NoSession
    /\ submitted_ok = FALSE
    /\ raw_dfs = << >>
    /\ data = EmptyFrame
    /\ stage = 0
    /\ stage_in = EmptyFrame
    /\ selected = {}
    /\ touched = FALSE
    /\ filtered = EmptyFrame
    /\ kpi = NoKpi
    /\ icd_group = << >>

Standardize ==
    /\ pc = "resolve"
    /\ resolved' = StandardizeColumns(df, manual_mapping)
    /\ pc' = "resolved"
    /\ UNCHANGED <<session_state, submitted_ok, raw_dfs, manual_mapping, df, resolved2,
                   data, stage, stage_in, selected, touched, filtered, kpi, icd_group>>

StandardizeAgain ==
    /\ pc = "resolved"
    /\ resolved2' = StandardizeColumns(resolved, manual_mapping)
    /\ pc' = "resolved_twice"
    /\ UNCHANGED <<session_state, submitted_ok, raw_dfs, manual_mapping, df, resolved,
                   data, stage, stage_in, selected, touched, filtered, kpi, icd_group>>

NextResolve == Standardize \/ StandardizeAgain

SpecResolve == InitResolve /\ [][NextResolve]_vars

---------------------------------------------------------------------------
(* Claims about standardize_columns.                                       *)

Resolved == pc \in {"resolved", "resolved_twice"}

\* The manual mapping's entry for a key, as the caller wrote it.
Entry(k) == manual_mapping[k]

IsExplicit(k) == Entry(k) \notin {None, "AUTO"}

\* The raw labels some key's manual mapping names.
ExplicitChoices == {Entry(k) : k \in {x \in KeySet : IsExplicit(x)}}

\* C1: a key mapped to "no mapping" (None), in a table without the key's
\* canonical column, gets no column: nothing is renamed to its canonical name,
\* not even a column matching one of its synonyms.
C1_NoMappingLeavesKeyAbsent ==
    Resolved =>
        \A k \in KeySet :
            (Entry(k) = None /\ CANONICAL_COLS[k] \notin Columns(df))
                => CANONICAL_COLS[k] \notin Columns(resolved)

\* C2 (as claimed): for every key whose manual mapping names a column X of the
\* table, the former X carries the canonical name afterwards and no other
\* column was renamed to it.
C2_ManualAlwaysWins ==
    Resolved =>
        \A k \in KeySet :
            (IsExplicit(k) /\ Entry(k) \in Columns(df)) =>
                /\ Positions(df, Entry(k)) \subseteq Positions(resolved, CANONICAL_COLS[k])
                /\ Positions(resolved, CANONICAL_COLS[k]) \subseteq
                       Positions(df, Entry(k)) \cup Positions(df, CANONICAL_COLS[k])

\* No other key's manual mapping names k's column or k's canonical name.
Uncontested(k) ==
    \A o \in KeySet \ {k} : Entry(o) \notin {Entry(k), CANONICAL_COLS[k]}

\* C2 (amended): for every key whose manual mapping names a column X of the
\* table, no column reaches the key's canonical name by synonym matching (each
\* column carrying it was already so named or is named by a manual mapping), and
\* the former X carries the canonical name when no other key's manual mapping
\* names X or that canonical name.
C2_ManualBeatsSynonyms ==
    Resolved =>
        \A k \in KeySet :
            (IsExplicit(k) /\ Entry(k) \in Columns(df)) =>
                /\ \A i \in Positions(resolved, CANONICAL_COLS[k]) :
                       df.cols[i] = CANONICAL_COLS[k] \/ df.cols[i] \in ExplicitChoices
                /\ Uncontested(k) =>
                       Positions(df, Entry(k)) \subseteq Positions(resolved, CANONICAL_COLS[k])

\* C2 witness: icd10 is mapped to Notes in a table that also has ICDDisplay (a
\* synonym of icd10); Notes became ICD10_Code and ICDDisplay kept its label.
C2_Witness ==
    /\ pc = "resolved"
    /\ Entry("icd10") = "Notes"
    /\ Uncontested("icd10")
    /\ {"Notes", "ICDDisplay"} \subseteq Columns(df)
    /\ Positions(resolved, "ICD10_Code") = Positions(df, "Notes")
    /\ "ICDDisplay" \in Columns(resolved)

\* C6 (as claimed): standardize_columns applied to its own output gives the same
\* labels as applied once, and a table whose labels are all canonical display
\* names is returned unchanged, for every table and every manual mapping.
C6_IdempotentForEveryMapping ==
    /\ pc = "resolved_twice" => resolved2.cols = resolved.cols
    /\ (Resolved /\ Columns(df) \subseteq CanonicalNames) => resolved = df

\* No key's manual mapping names the canonical display name of another key.
NoCrossCanonicalChoice ==
    \A k \in KeySet :
        IsExplicit(k) => Entry(k) \notin CanonicalNames \ {CANONICAL_COLS[k]}

\* C6 (amended): the two statements hold for every table and every manual
\* mapping in which no key names the canonical display name of another key.
C6_Idempotent ==
    NoCrossCanonicalChoice =>
        /\ pc = "resolved_twice" => resolved2.cols = resolved.cols
        /\ (Resolved /\ Columns(df) \subseteq CanonicalNames) => resolved = df

\* C6 witness: a second application after a first one that renamed a column by
\* manual mapping and another by synonym.
C6_Witness ==
    /\ pc = "resolved_twice"
    /\ NoCrossCanonicalChoice
    /\ Entry("visn") = "Notes"
    /\ df.cols = << "Notes", "ICD10", "ICDDisplay" >>
    /\ resolved.cols = << "VISN", "ICD10_Code", "ICDDisplay" >>
    /\ resolved2 = resolved

\* C10: when the table already has a key's canonical column, nothing is renamed
\* to that name, whatever the manual mapping: the columns carrying the name
\* afterwards are among those that carried it before, and there is at most one.
C10_PresentCanonicalBlocksRenaming ==
    Resolved =>
        \A k \in KeySet :
            CANONICAL_COLS[k] \in Columns(df) =>
                /\ Positions(resolved, CANONICAL_COLS[k]) \subseteq
                       Positions(df, CANONICAL_COLS[k])
                /\ Cardinality(Positions(resolved, CANONICAL_COLS[k])) <= 1

\* C11: a key whose manual mapping names an explicit raw column that is not
\* among the table's columns, in a table without the key's canonical column, gets
\* no column: the synonym scan is not run for it and the table ends up with no
\* column carrying its canonical name, even if a column matches a synonym.
C11_AbsentChoiceLeavesKeyAbsent ==
    Resolved =>
        \A k \in KeySet :
            (/\ IsExplicit(k)
             /\ Entry(k) \notin Columns(df)
             /\ CANONICAL_COLS[k] \notin Columns(df))
                => CANONICAL_COLS[k] \notin Columns(resolved)

---------------------------------------------------------------------------
(* The table-unifier specification: load_and_normalize applied to a list   *)
(* of sheets, then the ICD-10 grouping applied to its result.              *)

\* Headers: the two of the end-to-end scenario (different recognised spellings
\* of the same three fields), one with a single recognised column, one with none.
UnifyHeaders ==
    { << "ICDDisplay", "EncountersRedacted", "ProviderName" >>,
      << "icd10", "encounters", "provider" >>,
      << "ICDDisplay", "Notes", "Comment" >>,
      << "Notes", "Comment", "Memo" >> }

Row1 == << "C50.911", "5", "Dr. A" >>
Row2 == << "C34.9", "3", "Dr. B" >>
Row3 == << "C50.911", "2", "Dr. A" >>
\* Row1 with surrounding white space.
Row4 == << " C50.911", "5", "Dr. A " >>
\* A missing cell and a cell that is not a number.
Row5 == << NA, "n/a", "Dr. B" >>

\* The row lists of a sheet: empty, the scenario's two, a row and the same row
\* with white space, rows that differ in their second column only, a row
\* repeated.
SampleRowLists ==
    { << >>, << Row1, Row2 >>, << Row3 >>, << Row4, Row1 >>, << Row1, Row3 >>,
      << Row5, Row5 >> }

Sheets == { [cols |-> h, rows |-> r] : h \in UnifyHeaders, r \in SampleRowLists }

RECURSIVE SheetLists(_)
SheetLists(n) ==
    IF n = 0 THEN { << >> }
    ELSE { Append(l, s) : l \in SheetLists(n - 1), s \in Sheets }

Uploads == UNION { SheetLists(n) : n \in 0..MaxSheets }

\* Manual mappings of the unifier runs: all 'Auto-detect'; 'None' for icd10;
\* raw columns for encounters and provider_name.
UnifyMappings ==
    { AllAuto,
      [AllAuto EXCEPT !["icd10"] = None],
      [AllAuto EXCEPT !["encounters"] = "Notes", !["provider_name"] = "ICDDisplay"] }

AuthVars == <<session_state, submitted_ok>>
ResolveVars == <<df, resolved, resolved2>>
FilterVars == <<stage, stage_in, selected, touched, filtered>>

InitUnify ==
    /\ pc = "load"
    /\ raw_dfs \in Uploads
    /\ manual_mapping \in UnifyMappings
    /\ df = EmptyFrame
    /\ resolved = EmptyFrame
    /\ resolved2 = EmptyFrame
    /\ session_state = NoSession
    /\ submitted_ok = FALSE
    /\ data = EmptyFrame
    /\ stage = 0
    /\ stage_in = EmptyFrame
    /\ selected = {}
    /\ touched = FALSE
    /\ filtered = EmptyFrame
    /\ kpi = NoKpi
    /\ icd_group = << >>

\* load_and_normalize returns.
Load ==
    /\ pc = "load"
    /\ ~LoadRaises(raw_dfs, manual_mapping)
    /\ data' = LoadAndNormalize(raw_dfs, manual_mapping)
    /\ pc' = "loaded"
    /\ UNCHANGED <<AuthVars, ResolveVars, FilterVars, raw_dfs, manual_mapping, kpi,
                   icd_group>>

\* load_and_normalize raises.
LoadFails ==
    /\ pc = "load"
    /\ LoadRaises(raw_dfs, manual_mapping)
    /\ pc' = "crashed"
    /\ UNCHANGED <<AuthVars, ResolveVars, FilterVars, raw_dfs, manual_mapping, data,
                   kpi, icd_group>>

\* The ICD-10 chart's table, of a table with both columns.
IcdGroup(d) == GroupSum(d, "ICD10_Code", "Encounters")

HasIcdChart(d) == "ICD10_Code" \in Columns(d) /\ "Encounters" \in Columns(d)

Group ==
    /\ pc = "loaded"
    /\ HasIcdChart(data)
    /\ icd_group' \in IcdGroup(data)
    /\ pc' = "grouped"
    /\ UNCHANGED <<AuthVars, ResolveVars, FilterVars, raw_dfs, manual_mapping, data, kpi>>

\* "ICD10_Code or Encounters column not found."
GroupSkipped ==
    /\ pc = "loaded"
    /\ ~HasIcdChart(data)
    /\ pc' = "grouped"
    /\ UNCHANGED <<AuthVars, ResolveVars, FilterVars, raw_dfs, manual_mapping, data, kpi,
                   icd_group>>

NextUnify == Load \/ LoadFails \/ Group \/ GroupSkipped

SpecUnify == InitUnify /\ [][NextUnify]_vars

---------------------------------------------------------------------------
(* Claims about load_and_normalize and the grouping.                       *)

Loaded == pc \in {"loaded", "grouped"}

RECURSIVE RowCount(_, _)
RowCount(sheets, i) ==
    IF i > Len(sheets) THEN 0 ELSE Len(sheets[i].rows) + RowCount(sheets, i + 1)

\* The sum of the input sheets' row counts.
InputRowCount == RowCount(raw_dfs, 1)

\* The input rows as the unifier lines them up: each standardized sheet's rows
\* on the kept canonical columns, before any cleaning.
InputRows(dfs) == ConcatRows(dfs, KeepCols(dfs), 1)

AllDistinct(rows) == \A i, j \in DOMAIN rows : i # j => rows[i] # rows[j]

\* C5 (as claimed): the output has at most as many rows as the inputs together,
\* and exactly as many when no two input rows are identical across all
\* canonical columns.
C5_NoRowsIntroducedEqualityOnRaw ==
    Loaded =>
        LET rows == InputRows(StandardizedSheets(raw_dfs, manual_mapping))
        IN  /\ Len(data.rows) <= InputRowCount
            /\ AllDistinct(rows) => Len(data.rows) = InputRowCount

\* C5 (amended): whenever load_and_normalize returns, the output has at most as
\* many rows as the inputs together, and exactly as many when some canonical
\* column survives and no two input rows are identical across the kept canonical
\* columns after cleaning (text trimmed, missing text "nan", Encounters a number
\* with 0 for what does not parse).
C5_NoRowsIntroduced ==
    Loaded =>
        LET dfs  == StandardizedSheets(raw_dfs, manual_mapping)
            rows == InputRows(dfs)
            kept == KeepCols(dfs)
        IN  /\ Len(data.rows) <= InputRowCount
            /\ ( /\ Len(kept) > 0
                 /\ AllDistinct([r \in DOMAIN rows |-> CleanRow(rows[r], kept)]) )
                   => Len(data.rows) = InputRowCount

\* C5 witness: two sheets with three rows between them, all kept, under a
\* header pair that unifies into the same columns.
C5_Witness ==
    /\ pc = "loaded"
    /\ Len(raw_dfs) = 2
    /\ raw_dfs[1].cols # raw_dfs[2].cols
    /\ InputRowCount = 3
    /\ Len(data.rows) = 3
    /\ Len(data.cols) = 3

ScenarioSheets ==
    << [cols |-> << "ICDDisplay", "EncountersRedacted", "ProviderName" >>,
        rows |-> << Row1, Row2 >>],
       [cols |-> << "icd10", "encounters", "provider" >>,
        rows |-> << Row3 >>] >>

ScenarioUnified ==
    [cols |-> << "ICD10_Code", "Encounters", "ProviderName" >>,
     rows |-> << << "C50.911", 5, "Dr. A" >>,
                 << "C34.9", 3, "Dr. B" >>,
                 << "C50.911", 2, "Dr. A" >> >>]

ScenarioGroups ==
    << [key |-> "C50.911", total |-> 7], [key |-> "C34.9", total |-> 3] >>

\* C8: with auto mapping, the sheet ICDDisplay/EncountersRedacted/ProviderName
\* with rows (C50.911,5,Dr. A),(C34.9,3,Dr. B) and the sheet
\* icd10/encounters/provider with row (C50.911,2,Dr. A) unify into exactly three
\* rows under ICD10_Code/Encounters/ProviderName, and grouping by ICD10_Code
\* summing Encounters gives C50.911 -> 7, C34.9 -> 3, in that order.
C8_ScenarioUnifies ==
    (raw_dfs = ScenarioSheets /\ manual_mapping = AllAuto) =>
        /\ pc # "crashed"
        /\ Loaded => data = ScenarioUnified
        /\ pc = "grouped" => icd_group = ScenarioGroups

\* C8 witness: the scenario was unified and grouped.
C8_Witness ==
    /\ pc = "grouped"
    /\ raw_dfs = ScenarioSheets
    /\ manual_mapping = AllAuto
    /\ Len(data.rows) = 3
    /\ Len(icd_group) = 2

---------------------------------------------------------------------------
(* The password gate.                                                      *)

Passwords == { DASHBOARD_PASSWORD, "letmein", "" }

\* PasswordMatches with a fault: any submitted password is accepted.
PasswordMatchesAny(pwd) == TRUE

\* pwd == DASHBOARD_PASSWORD
PasswordMatches(pwd) == pwd = DASHBOARD_PASSWORD

\* st.session_state after `if "authenticated" not in st.session_state: ...`
WithDefaultFlag(ss) ==
    IF "authenticated" \in DOMAIN ss THEN ss ELSE [authenticated |-> FALSE]

Authenticated == "authenticated" \in DOMAIN session_state /\ session_state["authenticated"]

\* What a script run leaves behind for the next one is session_state alone.
RunLocals ==
    <<raw_dfs, manual_mapping, data, stage, stage_in, selected, touched, filtered, kpi,
      icd_group>>

\* check_password(), then `if not check_password(): st.stop()`.  The login form
\* is drawn only for a session that is not authenticated; pwd and login are what
\* the form holds in this run.
CheckPassword ==
    /\ pc = "gate"
    /\ \E pwd \in Passwords, login \in BOOLEAN :
         LET ss == WithDefaultFlag(session_state)
         IN  IF ss["authenticated"]
             THEN /\ session_state' = ss
                  /\ submitted_ok' = submitted_ok
                  /\ pc' = "upload"
             ELSE IF login /\ PasswordMatches(pwd)
             THEN /\ session_state' = [ss EXCEPT !["authenticated"] = TRUE]
                  /\ submitted_ok' = (submitted_ok \/ pwd = DASHBOARD_PASSWORD)
                  /\ pc' = "upload"
             ELSE /\ session_state' = ss
                  /\ submitted_ok' = (submitted_ok \/ (login /\ pwd = DASHBOARD_PASSWORD))
                  /\ pc' = "login"
    /\ UNCHANGED <<ResolveVars, RunLocals>>

---------------------------------------------------------------------------
(* Upload: every sheet of every readable file.                             *)

\* An uploaded file: its name, whether pd.ExcelFile can read it, its sheets.
FileA ==
    [name |-> "a.xlsx", readable |-> TRUE,
     sheets |-> << [sheet_name |-> "Sheet1",
                    cols |-> << "ICDDisplay", "EncountersRedacted", "ProviderName" >>,
                    rows |-> << Row1, Row2 >>] >>]

FileB ==
    [name |-> "b.xlsx", readable |-> TRUE,
     sheets |-> << [sheet_name |-> "Sheet1",
                    cols |-> << "icd10", "encounters", "provider" >>,
                    rows |-> << Row3 >>] >>]

\* A sheet with no provider column.
FileC ==
    [name |-> "c.xlsx", readable |-> TRUE,
     sheets |-> << [sheet_name |-> "Sheet1",
                    cols |-> << "ICDDisplay", "Notes", "Comment" >>,
                    rows |-> << Row2 >>] >>]

\* A sheet with no recognised column.
FileD ==
    [name |-> "d.xlsx", readable |-> TRUE,
     sheets |-> << [sheet_name |-> "Sheet1",
                    cols |-> << "Notes", "Comment", "Memo" >>,
                    rows |-> << Row2 >>] >>]

\* A file pd.ExcelFile raises on.
FileX == [name |-> "x.xlsx", readable |-> FALSE, sheets |-> << >>]

DashFiles == { FileA, FileB, FileC, FileD, FileX }

RECURSIVE FileLists(_)
FileLists(n) ==
    IF n = 0 THEN { << >> }
    ELSE { Append(l, f) : l \in FileLists(n - 1), f \in DashFiles }

DashUploads == UNION { FileLists(n) : n \in 0..MaxFiles }

\* xls.parse(sheet_name) with the two _source columns added.
ReadSheet(f, sh) ==
    [cols |-> sh.cols \o << "_source_file", "_source_sheet" >>,
     rows |-> [r \in DOMAIN sh.rows |-> sh.rows[r] \o << f.name, sh.sheet_name >>]]

\* The sheets of one file; none when reading it raises.
ReadFile(f) ==
    IF f.readable THEN [i \in DOMAIN f.sheets |-> ReadSheet(f, f.sheets[i])] ELSE << >>

RECURSIVE ReadAll(_, _)
ReadAll(files, i) ==
    IF i > Len(files) THEN << >> ELSE ReadFile(files[i]) \o ReadAll(files, i + 1)

\* all_columns: the labels seen in any sheet.
AllColumns(sheets) == UNION { Columns(sheets[i]) : i \in DOMAIN sheets }

\* The uploader is empty, or no sheet could be read: st.stop().
UploadNothing ==
    /\ pc = "upload"
    /\ \E files \in DashUploads :
         /\ Len(ReadAll(files, 1)) = 0
         /\ raw_dfs' = << >>
    /\ pc' = "stopped"
    /\ UNCHANGED <<AuthVars, ResolveVars, manual_mapping, data, FilterVars, kpi, icd_group>>

Upload ==
    /\ pc = "upload"
    /\ \E files \in DashUploads :
         /\ Len(ReadAll(files, 1)) > 0
         /\ raw_dfs' = ReadAll(files, 1)
    /\ pc' = "mapping"
    /\ UNCHANGED <<AuthVars, ResolveVars, manual_mapping, data, FilterVars, kpi, icd_group>>

---------------------------------------------------------------------------
(* Column mapping selectors.                                               *)

\* The selectors' values in the dashboard runs: all 'Auto-detect'; 'None' for
\* icd10; a raw column for provider_name.
AllAutoDetect == [k \in KeySet |-> "Auto-detect"]

DashSelections ==
    { AllAutoDetect,
      [AllAutoDetect EXCEPT !["icd10"] = "None"],
      [AllAutoDetect EXCEPT !["provider_name"] = "ICDDisplay"] }

\* column_selector's options
SelectorOptions(all_columns) == {"Auto-detect", "None"} \cup all_columns

\* Normalize "Auto-detect" / "None"
NormalizeChoice(v) ==
    IF v = "Auto-detect" THEN "AUTO"
    ELSE IF v = "None" THEN None
    ELSE v

ColumnMapping ==
    /\ pc = "mapping"
    /\ \E sel \in DashSelections :
         /\ \A k \in KeySet : sel[k] \in SelectorOptions(AllColumns(raw_dfs))
         /\ manual_mapping' = [k \in KeySet |-> NormalizeChoice(sel[k])]
    /\ pc' = "normalize"
    /\ UNCHANGED <<AuthVars, ResolveVars, raw_dfs, data, FilterVars, kpi, icd_group>>

---------------------------------------------------------------------------
(* Normalize data.                                                         *)

\* DataFrame.empty
IsEmpty(d) == Len(d.cols) = 0 \/ Len(d.rows) = 0

\* load_and_normalize raises: the run ends with the exception.
NormalizeFails ==
    /\ pc = "normalize"
    /\ LoadRaises(raw_dfs, manual_mapping)
    /\ pc' = "crashed"
    /\ UNCHANGED <<AuthVars, ResolveVars, RunLocals>>

\* "No usable data found after normalization."
NormalizeEmpty ==
    /\ pc = "normalize"
    /\ ~LoadRaises(raw_dfs, manual_mapping)
    /\ IsEmpty(LoadAndNormalize(raw_dfs, manual_mapping))
    /\ data' = LoadAndNormalize(raw_dfs, manual_mapping)
    /\ pc' = "stopped"
    /\ UNCHANGED <<AuthVars, ResolveVars, raw_dfs, manual_mapping, FilterVars, kpi,
                   icd_group>>

\* data = load_and_normalize(...); filtered = data.copy()
Normalize ==
    /\ pc = "normalize"
    /\ ~LoadRaises(raw_dfs, manual_mapping)
    /\ ~IsEmpty(LoadAndNormalize(raw_dfs, manual_mapping))
    /\ data' = LoadAndNormalize(raw_dfs, manual_mapping)
    /\ filtered' = data'
    /\ stage' = 1
    /\ pc' = "filter"
    /\ UNCHANGED <<AuthVars, ResolveVars, raw_dfs, manual_mapping, stage_in, selected,
                   touched, kpi, icd_group>>

---------------------------------------------------------------------------
(* Sidebar filters.                                                        *)

\* The filter stages, in the order of the calls.
FILTER_COLS ==
    << "VISN", "FacilityName", "State", "City", "ProviderSpecialty", "ProviderName" >>

\* The multiselect's options: the column's values but "nan" (their sorted order
\* plays no part in the filter).
Options(d, col_name) ==
    IF col_name \in Columns(d) THEN ColumnValues(d, col_name) \ {"nan"} ELSE {}

\* df[df[col_name].isin(selected)]
RowsIn(d, col_name, sel) ==
    [d EXCEPT !.rows = SelectSeq(d.rows, LAMBDA row : row[ColIndex(d, col_name)] \in sel)]

\* multiselect_filter, given the value the multiselect returns.
MultiselectFilter(d, col_name, sel) ==
    IF col_name \notin Columns(d) THEN d
    ELSE IF sel # {} THEN RowsIn(d, col_name, sel)
    ELSE d

\* One call of multiselect_filter.  A column that is absent draws no widget.
\* A widget the user has not touched returns its default, the empty list; one
\* the user has changed returns any subset of the options, the empty one when
\* every option was deselected again.
FilterStage ==
    /\ pc = "filter"
    /\ stage \in DOMAIN FILTER_COLS
    /\ LET col_name == FILTER_COLS[stage]
       IN  \E sel \in SUBSET Options(filtered, col_name), t \in BOOLEAN :
             /\ ~t => sel = {}
             /\ col_name \notin Columns(filtered) => ~t
             /\ selected' = sel
             /\ touched' = t
             /\ stage_in' = filtered
             /\ filtered' = MultiselectFilter(filtered, col_name, sel)
    /\ stage' = stage + 1
    /\ pc' = "filter"
    /\ UNCHANGED <<AuthVars, ResolveVars, raw_dfs, manual_mapping, data, kpi, icd_group>>

---------------------------------------------------------------------------
(* KPI cards and the ICD-10 chart.                                         *)

\* filtered[col].sum(), as an integer; 0 without the column.
Total(d, name) ==
    LET F[i \in 0..Len(d.rows)] ==
            IF i = 0 THEN 0 ELSE F[i - 1] + d.rows[i][ColIndex(d, name)]
    IN  IF name \in Columns(d) THEN F[Len(d.rows)] ELSE 0

\* filtered[col].nunique(): the number of distinct values that are not NaN; 0
\* without the column.  The cleaned text columns hold no NaN.
NUnique(d, name) ==
    IF name \in Columns(d) THEN Cardinality(ColumnValues(d, name) \ {NA}) ELSE 0

\* After the last filter: `if filtered.empty: st.stop()` ("Filters removed all
\* rows."), else the KPI cards.
KpiCards ==
    /\ pc = "filter"
    /\ stage = Len(FILTER_COLS) + 1
    /\ IF IsEmpty(filtered)
       THEN /\ kpi' = kpi
            /\ pc' = "stopped"
       ELSE /\ kpi' = [total_encounters    |-> Total(filtered, "Encounters"),
                       distinct_providers  |-> NUnique(filtered, "ProviderName"),
                       distinct_facilities |-> NUnique(filtered, "FacilityName"),
                       distinct_icd        |-> NUnique(filtered, "ICD10_Code")]
            /\ pc' = "charts"
    /\ UNCHANGED <<AuthVars, ResolveVars, raw_dfs, manual_mapping, data, FilterVars,
                   icd_group>>

\* Top ICD-10 Codes by Encounters.
IcdChart ==
    /\ pc = "charts"
    /\ HasIcdChart(filtered)
    /\ icd_group' \in IcdGroup(filtered)
    /\ pc' = "done"
    /\ UNCHANGED <<AuthVars, ResolveVars, raw_dfs, manual_mapping, data, FilterVars, kpi>>

\* "ICD10_Code or Encounters column not found."
IcdChartSkipped ==
    /\ pc = "charts"
    /\ ~HasIcdChart(filtered)
    /\ pc' = "done"
    /\ UNCHANGED <<AuthVars, ResolveVars, RunLocals>>

---------------------------------------------------------------------------
(* The dashboard session: script runs, one per interaction.                *)

InitDash ==
    /\ pc = "gate"
    /\ session_state = NoSession
    /\ submitted_ok = FALSE
    /\ raw_dfs = << >>
    /\ manual_mapping = AllAuto
    /\ df = EmptyFrame
    /\ resolved = EmptyFrame
    /\ resolved2 = EmptyFrame
    /\ data = EmptyFrame
    /\ stage = 0
    /\ stage_in = EmptyFrame
    /\ selected = {}
    /\ touched = FALSE
    /\ filtered = EmptyFrame
    /\ kpi = NoKpi
    /\ icd_group = << >>

\* The next interaction: the script runs again from the top, with the session
\* state of the run before.
Rerun ==
    /\ pc \in {"login", "stopped", "crashed", "done"}
    /\ pc' = "gate"
    /\ raw_dfs' = << >>
    /\ manual_mapping' = AllAuto
    /\ data' = EmptyFrame
    /\ stage' = 0
    /\ stage_in' = EmptyFrame
    /\ selected' = {}
    /\ touched' = FALSE
    /\ filtered' = EmptyFrame
    /\ kpi' = NoKpi
    /\ icd_group' = << >>
    /\ UNCHANGED <<AuthVars, ResolveVars>>

NextDash ==
    \/ CheckPassword
    \/ UploadNothing
    \/ Upload
    \/ ColumnMapping
    \/ NormalizeFails
    \/ NormalizeEmpty
    \/ Normalize
    \/ FilterStage
    \/ KpiCards
    \/ IcdChart
    \/ IcdChartSkipped
    \/ Rerun

Spec == InitDash /\ [][NextDash]_vars

---------------------------------------------------------------------------
(* Claims about the dashboard session.                                     *)

\* A filter stage has just run: stage_in, selected, touched and filtered are
\* its input, its multiselect's value and its output.
StageRan == pc = "filter" /\ stage > 1

LastCol == FILTER_COLS[stage - 1]

\* s is t with some rows left out.
RECURSIVE IsSubSeq(_, _)
IsSubSeq(s, t) ==
    IF Len(s) = 0 THEN TRUE
    ELSE IF Len(t) = 0 THEN FALSE
    ELSE IF s[1] = t[1] THEN IsSubSeq(Tail(s), Tail(t))
    ELSE IsSubSeq(s, Tail(t))

\* C3: a filter stage returns a subset of the rows it was given, and with the
\* selection equal to the full list of options the stage offers it returns its
\* input unchanged, rows with a missing value ("nan") included.
C3_StageNarrowsAndSelectAllIsNoOp ==
    StageRan =>
        /\ filtered.cols = stage_in.cols
        /\ IsSubSeq(filtered.rows, stage_in.rows)
        /\ selected = Options(stage_in, LastCol) => filtered = stage_in

\* C4: a stage in its initial state leaves the table unfiltered, whereas a
\* selection the user has emptied by deselecting every option leaves no rows.
C4_DefaultDiffersFromDeselectAll ==
    (StageRan /\ LastCol \in Columns(stage_in)) =>
        /\ ~touched => filtered = stage_in
        /\ (touched /\ selected = {}) => Len(filtered.rows) = 0

\* The number of distinct values of a column of the filtered table that are
\* not missing; a missing value is the text "nan" after cleaning.
DistinctNonMissing(d, name) ==
    IF name \in Columns(d) THEN Cardinality(ColumnValues(d, name) \ {"nan", NA}) ELSE 0

\* C7: each distinct-count KPI is the number of distinct non-missing values of
\* its column in the filtered table; rows of a sheet that supplied no value for
\* the column add nothing.
C7_DistinctCountsSkipMissing ==
    pc \in {"charts", "done"} =>
        /\ kpi.distinct_icd = DistinctNonMissing(filtered, "ICD10_Code")
        /\ kpi.distinct_providers = DistinctNonMissing(filtered, "ProviderName")
        /\ kpi.distinct_facilities = DistinctNonMissing(filtered, "FacilityName")

\* The part of the script after the password gate is running or has run in
\* this interaction.
BodyRan == pc \notin {"gate", "login"}

\* C9: the body after the gate runs only if the configured password has been
\* submitted with 'Sign in' in this or an earlier interaction; the session flag
\* is set only then, and once set it stays set.
C9_GateHolds ==
    /\ [](BodyRan => submitted_ok)
    /\ [](Authenticated => submitted_ok)
    /\ [][Authenticated => Authenticated']_vars

\* C9 witness: a run of an authenticated session is past the gate, the
\* configured password having been submitted.
C9_Witness ==
    /\ pc = "upload"
    /\ Authenticated
    /\ submitted_ok

=============================================================================
